---- MODULE Spec2Model ----
(***************************************************************************)
(* Model of checkout_bot_py/app.py: one checkout request served by         *)
(* checkout_endpoint, which awaits process_request.  Every await of the    *)
(* coroutine is one action, browser calls and pauses alike; each browser   *)
(* call either returns or raises, chosen by the environment.  Strings that *)
(* the code parses (product lines, quantities) are sequences of            *)
(* one-character strings, so that rsplit and normalize_qty are computed    *)
(* and not assumed.                                                        *)
(***************************************************************************)
EXTENDS Integers, Sequences, FiniteSets, TLC

(***************************************************************************)
(* Bounds of the model.                                                    *)
(***************************************************************************)
\* longest produtos list that is explored
MaxLines == 2

(***************************************************************************)
(* Character-sequence helpers.                                             *)
(***************************************************************************)
Digits == <<"0", "1", "2", "3", "4", "5", "6", "7", "8", "9">>

\* the decimal digits outside ASCII that a string of this module can hold,
\* each script from its zero to its nine (U+06F0, U+07C0, U+09E6, U+0AE6,
\* U+0BE6, U+0CE6, U+0DE6, U+0ED0, U+1090, U+17E0, U+19D0, U+1A80, U+1A90,
\* U+1BB0, U+A8D0, U+A9D0, U+A9F0, U+ABF0)
UnicodeDigits ==
   <<
      <<"۰", "۱", "۲", "۳", "۴", "۵", "۶", "۷", "۸", "۹">>,
      <<"߀", "߁", "߂", "߃", "߄", "߅", "߆", "߇", "߈", "߉">>,
      <<"০", "১", "২", "৩", "৪", "৫", "৬", "৭", "৮", "৯">>,
      <<"૦", "૧", "૨", "૩", "૪", "૫", "૬", "૭", "૮", "૯">>,
      <<"௦", "௧", "௨", "௩", "௪", "௫", "௬", "௭", "௮", "௯">>,
      <<"೦", "೧", "೨", "೩", "೪", "೫", "೬", "೭", "೮", "೯">>,
      <<"෦", "෧", "෨", "෩", "෪", "෫", "෬", "෭", "෮", "෯">>,
      <<"໐", "໑", "໒", "໓", "໔", "໕", "໖", "໗", "໘", "໙">>,
      <<"႐", "႑", "႒", "႓", "႔", "႕", "႖", "႗", "႘", "႙">>,
      <<"០", "១", "២", "៣", "៤", "៥", "៦", "៧", "៨", "៩">>,
      <<"᧐", "᧑", "᧒", "᧓", "᧔", "᧕", "᧖", "᧗", "᧘", "᧙">>,
      <<"᪀", "᪁", "᪂", "᪃", "᪄", "᪅", "᪆", "᪇", "᪈", "᪉">>,
      <<"᪐", "᪑", "᪒", "᪓", "᪔", "᪕", "᪖", "᪗", "᪘", "᪙">>,
      <<"᮰", "᮱", "᮲", "᮳", "᮴", "᮵", "᮶", "᮷", "᮸", "᮹">>,
      <<"꣐", "꣑", "꣒", "꣓", "꣔", "꣕", "꣖", "꣗", "꣘", "꣙">>,
      <<"꧐", "꧑", "꧒", "꧓", "꧔", "꧕", "꧖", "꧗", "꧘", "꧙">>,
      <<"꧰", "꧱", "꧲", "꧳", "꧴", "꧵", "꧶", "꧷", "꧸", "꧹">>,
      <<"꯰", "꯱", "꯲", "꯳", "꯴", "꯵", "꯶", "꯷", "꯸", "꯹">>
   >>

\* the value of each character that float() reads as a decimal digit
DigitOf ==
    LET all == {Digits[k] : k \in 1..10}
                 \cup {UnicodeDigits[b][k] : b \in 1..Len(UnicodeDigits), k \in 1..10}
    IN  [c \in all |->
           (CHOOSE k \in 1..10 :
               \/ Digits[k] = c
               \/ \E b \in 1..Len(UnicodeDigits) : UnicodeDigits[b][k] = c) - 1]

IsDigit(c) == c \in DOMAIN DigitOf

DigitVal(c) == DigitOf[c]

\* the positions of s that hold character c
Positions(s, c) == {k \in 1..Len(s) : s[k] = c}

SetMax(S) == CHOOSE m \in S : \A n \in S : n <= m

\* str.replace(',', '.') of line 57
ReplaceComma(s) == [k \in 1..Len(s) |-> IF s[k] = "," THEN "." ELSE s[k]]

\* linha.rsplit(':', 1) unpacked into two names (line 73): the unpacking
\* raises ValueError exactly when the line holds no ':'
HasSeparator(linha) == Positions(linha, ":") # {}

SplitUrl(linha) == SubSeq(linha, 1, SetMax(Positions(linha, ":")) - 1)

SplitQty(linha) == SubSeq(linha, SetMax(Positions(linha, ":")) + 1, Len(linha))

(***************************************************************************)
(* normalize_qty (lines 56-57): float() of the string with ',' replaced    *)
(* by '.', formatted with "%.2f".  float() is computed as the interpreter  *)
(* computes it: blanks are stripped, underscores between digits dropped,   *)
(* the text is read as a decimal with optional exponent or as inf, nan     *)
(* in any case, and the decimal is rounded to the nearest double (53 bits, *)
(* ties to even).  "%.2f" rounds the exact value of that double to         *)
(* hundredths, ties to even.  Numbers are sequences of the digits 0..9,    *)
(* most significant first, without leading zero, so that no width limits   *)
(* them.  Characters are those a string of this module can hold: U+0000   *)
(* to U+00FF and some beyond; of the blanks and decimal digits that        *)
(* float() reads outside ASCII, three blanks and eighteen scripts' digits. *)
(***************************************************************************)
ValueError == <<"ValueError">>

SetMin(S) == CHOOSE m \in S : \A n \in S : m <= n

UpperCase == <<"A", "B", "C", "D", "E", "F", "G", "H", "I", "J", "K", "L", "M",
               "N", "O", "P", "Q", "R", "S", "T", "U", "V", "W", "X", "Y", "Z">>

LowerCase == <<"a", "b", "c", "d", "e", "f", "g", "h", "i", "j", "k", "l", "m",
               "n", "o", "p", "q", "r", "s", "t", "u", "v", "w", "x", "y", "z">>

UpperSet == {UpperCase[k] : k \in 1..26}

Lower(c) == IF c \in UpperSet
            THEN LowerCase[CHOOSE k \in 1..26 : UpperCase[k] = c]
            ELSE c

\* The vertical tab (0x0b), which has no escape in a string of this module.
VerticalTab == ""

\* next line (U+0085), no-break space (U+00A0), Ogham space mark (U+1680)
NextLineControl == ""

NoBreakSpace == " "

OghamSpace == " "

\* the blanks that float() skips at both ends of the text: those of ASCII,
\* and the Unicode blanks, which it turns into spaces before it parses
Blank(c) == c \in {" ", "\t", "\n", VerticalTab, "\f", "\r",
                   NextLineControl, NoBreakSpace, OghamSpace}

Strip(s) == LET nb == {k \in 1..Len(s) : ~Blank(s[k])}
            IN  IF nb = {} THEN <<>> ELSE SubSeq(s, SetMin(nb), SetMax(nb))

\* an underscore is accepted only between two digits
UnderscoresOk(t) ==
    \A k \in 1..Len(t) :
        t[k] = "_" => /\ k > 1 /\ IsDigit(t[k - 1])
                      /\ k < Len(t) /\ IsDigit(t[k + 1])

\* in lower case, each decimal digit turned into the ASCII digit of its value
LowerAll(t) == <<>> \o [k \in 1..Len(t) |-> IF IsDigit(t[k]) THEN Digits[DigitVal(t[k]) + 1]
                                              ELSE Lower(t[k])]

\* the text float() parses: stripped, without underscores, in lower case,
\* its digits in ASCII
Canon(s) == LowerAll(SelectSeq(Strip(s), LAMBDA c : c # "_"))

HasSign(s) == Len(s) > 0 /\ s[1] \in {"+", "-"}

Unsigned(s) == IF HasSign(s) THEN SubSeq(s, 2, Len(s)) ELSE s

IsSpecial(u) == u \in {<<"n", "a", "n">>, <<"i", "n", "f">>,
                       <<"i", "n", "f", "i", "n", "i", "t", "y">>}

\* digits with at most one '.', and at least one digit
IsDecimal(u) ==
    /\ \A k \in 1..Len(u) : IsDigit(u[k]) \/ u[k] = "."
    /\ Cardinality(Positions(u, ".")) <= 1
    /\ \E k \in 1..Len(u) : IsDigit(u[k])

\* digits after an optional sign, and at least one digit
IsExponent(x) ==
    /\ Len(Unsigned(x)) > 0
    /\ \A k \in 1..Len(x) : IsDigit(x[k]) \/ (k = 1 /\ HasSign(x))

EPos(u) == IF Positions(u, "e") = {} THEN Len(u) + 1 ELSE SetMin(Positions(u, "e"))

Mantissa(u) == SubSeq(u, 1, EPos(u) - 1)

ExpPart(u) == SubSeq(u, EPos(u) + 1, Len(u))

\* a decimal, optionally followed by e and an exponent
IsNumber(u) ==
    /\ Cardinality(Positions(u, "e")) <= 1
    /\ IsDecimal(Mantissa(u))
    /\ Positions(u, "e") # {} => IsExponent(ExpPart(u))

\* inf, nan or a number after an optional sign
IsFloatText(u) == IsSpecial(u) \/ IsNumber(u)

\* float(s) succeeds
IsFloat(s) == UnderscoresOk(Strip(s)) /\ IsFloatText(Unsigned(Canon(s)))

DotPos(u) == IF Positions(u, ".") = {} THEN Len(u) + 1
             ELSE CHOOSE k \in Positions(u, ".") : TRUE

RECURSIVE DigitsToNat(_)
DigitsToNat(d) == IF d = <<>> THEN 0
                  ELSE 10 * DigitsToNat(SubSeq(d, 1, Len(d) - 1)) + DigitVal(d[Len(d)])

FirstNot(d, z) == IF \A k \in 1..Len(d) : d[k] = z THEN Len(d) + 1
                  ELSE CHOOSE k \in 1..Len(d) : d[k] # z /\ \A j \in 1..(k - 1) : d[j] = z

\* d without its leading z
StripLeading(d, z) == SubSeq(d, FirstNot(d, z), Len(d))

\* the number that a sequence of digit characters writes
Number(t) == StripLeading(<<>> \o [k \in 1..Len(t) |-> DigitVal(t[k])], 0)

\* an exponent of more than nine digits decides like this one
ExpCap == 1000000000

ExpMagnitude(d) == IF Len(d) > 9 THEN ExpCap ELSE DigitsToNat(d)

\* the exponent x after e, 0 without one
ExpVal(x) == IF HasSign(x) /\ x[1] = "-"
             THEN 0 - ExpMagnitude(StripLeading(Unsigned(x), "0"))
             ELSE ExpMagnitude(StripLeading(Unsigned(x), "0"))

\* the number of digits after the point of mantissa md
FracLen(md) == IF DotPos(md) > Len(md) THEN 0 ELSE Len(md) - DotPos(md)

\* a decimal text as digits d and exponent e: its value is d * 10^e
Decimal(u) ==
    [d |-> Number(SelectSeq(Mantissa(u), LAMBDA c : c # ".")),
     e |-> ExpVal(ExpPart(u)) - FracLen(Mantissa(u))]

\* 2 * d
Double(d) ==
    LET n == Len(d)
        body == <<>> \o [k \in 1..n |-> ((2 * d[k]) % 10)
                                        + (IF k < n /\ d[k + 1] >= 5 THEN 1 ELSE 0)]
    IN  IF n > 0 /\ d[1] >= 5 THEN <<1>> \o body ELSE body

\* d divided by 2, rounded down
Halve(d) ==
    LET n == Len(d)
        body == <<>> \o [k \in 1..n |->
                   (d[k] + (IF k > 1 /\ d[k - 1] % 2 = 1 THEN 10 ELSE 0)) \div 2]
    IN  IF n > 0 /\ d[1] = 1 THEN Tail(body) ELSE body

IsOdd(d) == Len(d) > 0 /\ d[Len(d)] % 2 = 1

\* d + 1
Succ(d) ==
    LET n == Len(d)
        nines(k) == \A j \in k..n : d[j] = 9
        body == <<>> \o [k \in 1..n |-> IF nines(k) THEN 0
                                        ELSE IF nines(k + 1) THEN d[k] + 1 ELSE d[k]]
    IN  IF nines(1) THEN <<1>> \o body ELSE body

\* d * 2^n; the first half of the shifts is computed before the second
\* half starts, which keeps the evaluation shallow
RECURSIVE Shl(_, _)
Shl(d, n) ==
    IF n = 0 THEN d
    ELSE IF n = 1 THEN Double(d)
    ELSE CHOOSE r \in {Shl(h, n - n \div 2) : h \in {Shl(d, n \div 2)}} : TRUE

\* d divided by 2^n, rounded down
RECURSIVE Shr(_, _)
Shr(d, n) ==
    IF n = 0 THEN d
    ELSE IF n = 1 THEN Halve(d)
    ELSE CHOOSE r \in {Shr(h, n - n \div 2) : h \in {Shr(d, n \div 2)}} : TRUE

\* a <= b
BigLe(a, b) ==
    IF Len(a) # Len(b) THEN Len(a) < Len(b)
    ELSE ~\E k \in 1..Len(a) : a[k] > b[k] /\ \A j \in 1..(k - 1) : a[j] = b[j]

Zeros(n) == <<>> \o [k \in 1..n |-> 0]

\* half of G rounded to the nearest number, a tie to the even one; sticky
\* says that the rounded value lies above G / 2
RoundHalfEven(G, sticky) ==
    IF IsOdd(G) /\ (sticky \/ IsOdd(Halve(G))) THEN Succ(Halve(G)) ELSE Halve(G)

\* the value of a nonzero decimal x is Numer(x) / 10^Denom(x)
Numer(x) == x.d \o Zeros(IF x.e > 0 THEN x.e ELSE 0)

Denom(x) == IF x.e < 0 THEN 0 - x.e ELSE 0

\* 2^c <= A / 10^J
AtLeastPow2(A, J, c) ==
    IF c >= 0 THEN BigLe(Shl(<<1>> \o Zeros(J), c), A)
    ELSE BigLe(<<1>> \o Zeros(J), Shl(A, 0 - c))

\* the candidates for the binary exponent of a value of magnitude t, that
\* is 10^(t-1) <= value < 10^t, from 3.3219 < log2(10) < 3.3220
MinBinExp(t) == IF t >= 1 THEN (33219 * (t - 1)) \div 10000 ELSE (33220 * (t - 1)) \div 10000

MaxBinExp(t) == IF t >= 0 THEN (33220 * t) \div 10000 ELSE (33219 * t) \div 10000

\* the binary exponent k of A / 10^J: 2^k <= A / 10^J < 2^(k+1)
BinExp(A, J) ==
    MinBinExp(Len(A) - J) - 1
    + Cardinality({c \in MinBinExp(Len(A) - J)..MaxBinExp(Len(A) - J) : AtLeastPow2(A, J, c)})

\* A * 2^s rounded down
Scale(A, s) == IF s >= 0 THEN Shl(A, s) ELSE Shr(A, 0 - s)

\* B is Scale(A, s) and bits of A were lost
Inexact(A, s, B) == s < 0 /\ Shl(B, 0 - s) # A

\* B / 10^J rounded to 53 bits, B being the value scaled to 54 bits
RoundBits(B, J, sticky) ==
    RoundHalfEven(SubSeq(B, 1, Len(B) - J),
                  sticky \/ \E n \in (Len(B) - J + 1)..Len(B) : B[n] # 0)

\* the nearest double of A / 10^J with binary exponent k, as m * 2^e
NearestDouble(A, J, k) ==
    [m |-> LET B == Scale(A, 53 - k) IN RoundBits(B, J, Inexact(A, 53 - k, B)),
     e |-> k - 52]

TwoTo53 == <<9, 0, 0, 7, 1, 9, 9, 2, 5, 4, 7, 4, 0, 9, 9, 2>>

Infinity == [m |-> <<>>, e |-> 1024]

\* a double beyond the largest one is inf
Clamp(v) == IF v.e + 52 >= 1024 \/ (v.e + 52 = 1023 /\ v.m = TwoTo53) THEN Infinity ELSE v

\* the double of decimal x; what is below 0.001 is formatted like 0, what
\* has more than 310 digits before the point is inf
ToDouble(x) ==
    IF x.d = <<>> \/ Len(x.d) + x.e <= -3 THEN [m |-> <<>>, e |-> 0]
    ELSE IF Len(x.d) + x.e > 310 THEN Infinity
    ELSE Clamp(NearestDouble(Numer(x), Denom(x), BinExp(Numer(x), Denom(x))))

\* W / 2^n rounded to the nearest number, a tie to the even one (n >= 1)
RoundShift(W, n) ==
    LET G == Shr(W, n - 1) IN RoundHalfEven(G, Shl(G, n - 1) # W)

\* the double v in hundredths, as "%.2f" rounds it
ExactHundredths(v) ==
    IF v.e >= 0 THEN Shl(v.m, v.e) \o (IF v.m = <<>> THEN <<>> ELSE <<0, 0>>)
    ELSE RoundShift(v.m \o <<0, 0>>, 0 - v.e)

\* float() of the decimal text u answers inf
IsInfinite(u) == ToDouble(Decimal(u)) = Infinity

\* digits 3 to 6 after the point of text u
Window(u) == SubSeq(SubSeq(u, DotPos(u) + 1, Len(u)) \o <<"0", "0", "0", "0", "0", "0">>, 3, 6)

\* the text u has no exponent, at most nine digits before the point and
\* after the second digit behind the point neither 4999 nor 5000.  The
\* double of such a value is nearer to it than 0.0000002, so it lies on
\* the same side of every midpoint between hundredths as the value itself,
\* and the digits of the text decide the rounding.
IsPlain(u) ==
    /\ Positions(u, "e") = {}
    /\ Len(StripLeading(SubSeq(u, 1, DotPos(u) - 1), "0")) <= 9
    /\ Window(u) \notin {<<"4", "9", "9", "9">>, <<"5", "0", "0", "0">>}

\* the hundredths of a plain text: its digits up to the second one behind
\* the point, and one more when the third one is 5 or more
PlainHundredths(u) ==
    LET n == Number(SubSeq(u, 1, DotPos(u) - 1)
                    \o SubSeq(SubSeq(u, DotPos(u) + 1, Len(u)) \o <<"0", "0">>, 1, 2))
    IN  IF DigitVal(Window(u)[1]) >= 5 THEN Succ(n) ELSE n

\* the magnitude of the double of a finite decimal text, in hundredths, as
\* "%.2f" rounds it
Hundredths(u) == IF IsPlain(u) THEN PlainHundredths(u)
                 ELSE ExactHundredths(ToDouble(Decimal(u)))

\* "%.2f" of a magnitude given in hundredths
Format2(h) ==
    LET c == <<>> \o [k \in 1..Len(h) |-> Digits[h[k] + 1]]
    IN  IF Len(h) = 0 THEN <<"0", ".", "0", "0">>
        ELSE IF Len(h) = 1 THEN <<"0", ".", "0">> \o c
        ELSE IF Len(h) = 2 THEN <<"0", ".">> \o c
        ELSE SubSeq(c, 1, Len(c) - 2) \o <<".">> \o SubSeq(c, Len(c) - 1, Len(c))

\* "%.2f" of float() of the text c, which float() accepts
FormatFloat(c) ==
    IF IsSpecial(Unsigned(c))
    THEN (IF Unsigned(c)[1] = "n" THEN <<"n", "a", "n">> ELSE <<"i", "n", "f">>)
    ELSE IF ~IsPlain(Unsigned(c)) /\ IsInfinite(Unsigned(c)) THEN <<"i", "n", "f">>
    ELSE Format2(Hundredths(Unsigned(c)))

\* nan is written without its sign
SignOf(c) == IF HasSign(c) /\ c[1] = "-" /\ Unsigned(c) # <<"n", "a", "n">>
             THEN <<"-">> ELSE <<>>

\* the sign and "%.2f" of float() of the text c
Signed(c) == SignOf(c) \o FormatFloat(c)

normalize_qty(q) ==
    IF ~IsFloat(ReplaceComma(q)) THEN ValueError
    ELSE Signed(Canon(ReplaceComma(q)))

(***************************************************************************)
(* Program constants and the explored inputs.                              *)
(***************************************************************************)
\* CHECKOUT_URL (line 27), abstracted to a tag
CHECKOUT_URL == "checkout"

\* a URL the shop redirects to after a placed order
ORDER_RECEIVED_URL == "order-received"

\* the keys of `mapping` in insertion order (lines 113-125)
BillingFields == <<"billing_email", "billing_first_name", "billing_last_name",
                   "billing_cpf", "billing_postcode", "billing_address_1",
                   "billing_number", "billing_address_2", "billing_neighborhood",
                   "billing_city", "billing_phone">>

\* the eight awaits of the region selection (lines 136-143): six browser
\* calls and the pauses of lines 137 and 140
RegionAwaits == <<"click", "delay", "fill", "press", "delay", "click", "fill", "press">>

\* product lines of the explored requests: "h:/p1:0,5", "p2:2", "p3:ab", "p4"
LineSet == { <<"h", ":", "/", "p", "1", ":", "0", ",", "5">>,
             <<"p", "2", ":", "2">>,
             <<"p", "3", ":", "a", "b">>,
             <<"p", "4">> }

RECURSIVE SeqsUpTo(_)
SeqsUpTo(n) == IF n = 0 THEN {<<>>}
               ELSE LET S == SeqsUpTo(n - 1)
                    IN  S \cup {Append(s, l) : s \in {t \in S : Len(t) = n - 1}, l \in LineSet}

\* a key that result does not hold (yet)
Absent == "<absent>"

NoExc == "none"

(***************************************************************************)
(* State.                                                                  *)
(***************************************************************************)
VARIABLES
    produtos,      \* data.produtos of the request
    pc,            \* the await the coroutine is at
    session,       \* browser, context and page of the run
    i,             \* index of `linha` in the for loop of line 71
    url, qty,      \* locals of the loop body
    items,         \* result["items"]
    checkout,      \* result["checkout"]
    redirect_url,  \* result["redirect_url"], Absent until assigned
    fieldIdx,      \* position in mapping.items() (line 127)
    regionStep,    \* next browser call of the region selection
    exc,           \* the exception that is propagating, NoExc if none
    excContext,    \* __context__ of exc: the exception it replaced
    response,      \* what checkout_endpoint answers
    calls,         \* how often each browser call was invoked
    hist,          \* what the environment did (observations, not program state)
    q_raw, q_out,  \* argument and result of a call of normalize_qty
    runs, world    \* concurrent requests and the browser objects they created

\* the state of the specifications of normalize_qty and of concurrent requests
qtyVars == <<q_raw, q_out>>

concVars == <<runs, world>>

\* the state of the single-request specification
reqVars == <<produtos, pc, session, i, url, qty, items, checkout, redirect_url,
             fieldIdx, regionStep, exc, excContext, response, calls, hist>>

vars == <<produtos, pc, session, i, url, qty, items, checkout, redirect_url,
          fieldIdx, regionStep, exc, excContext, response, calls, hist,
          q_raw, q_out, runs, world>>

\* the other specifications are at rest
QtyIdle == q_raw = <<>> /\ q_out = <<>>

ConcIdle == runs = <<>> /\ world = <<>>

\* checkout_endpoint has been called and awaits process_request (line 191)
RequestStart ==
    /\ pc = "playwright_start"
    /\ session = [browser |-> "none", context |-> "none", page |-> "none"]
    /\ i = 1
    /\ url = <<>>
    /\ qty = <<>>
    /\ items = <<>>
    /\ checkout = Absent
    /\ redirect_url = Absent
    /\ fieldIdx = 1
    /\ regionStep = 1
    /\ exc = NoExc
    /\ excContext = NoExc
    /\ response = [kind |-> "none", status |-> "none", status_code |-> 0,
                   detail |-> NoExc, items |-> <<>>, checkout |-> Absent,
                   redirect_url |-> Absent]
    /\ calls = [goto_product |-> 0, fill_qty |-> 0, click_add |-> 0,
                goto_checkout |-> 0, region_cycles |-> 0, content |-> 0,
                is_checked |-> 0, check |-> 0, place_order |-> 0,
                context_close |-> 0, browser_close |-> 0]
    /\ hist = [itemLine |-> <<>>,      \* line index each item came from
               lineEnv |-> <<>>,       \* per finished line: what the browser did
               acted |-> {},           \* lines a browser call was made for
               filled |-> <<>>,        \* billing fields a fill was attempted for
               fillFailed |-> FALSE,   \* the fill of some billing field raised
               regionFailed |-> FALSE, \* a region call raised
               banner |-> FALSE,       \* the error banner was in the page
               isChecked |-> "none",   \* answer of page.is_checked
               checkPix |-> "none",    \* outcome of page.check
               clickOk |-> FALSE,      \* the place-order click returned
               redirected |-> FALSE,   \* page.url differed from CHECKOUT_URL
               excAtFinally |-> NoExc, \* exc when the finally block was entered
               closeFailed |-> FALSE,  \* context.close or browser.close raised
               stopFailed |-> FALSE,   \* async_playwright().__aexit__ raised
               reachedCheckout |-> FALSE, \* the loop ended, line 105 was reached
               addFailure |-> NoExc]   \* what raised in the try block of lines 88-94
                                       \* and is being handled at line 97

Init ==
    /\ QtyIdle
    /\ ConcIdle
    /\ produtos \in SeqsUpTo(MaxLines)
    /\ RequestStart

\* the product line of the end-to-end scenario: "https://shop/p1:0,05"
E2ELine == <<"h", "t", "t", "p", "s", ":", "/", "/", "s", "h", "o", "p", "/", "p", "1",
             ":", "0", ",", "0", "5">>

\* line 78 for the lines of the explored requests, computed once
ExploredQty == [l \in {x \in LineSet \cup {E2ELine} : HasSeparator(x)} |->
                  normalize_qty(SplitQty(l))]

\* line 78 for any line that holds a separator
QtyOfLine(l) == IF l \in DOMAIN ExploredQty THEN ExploredQty[l]
                ELSE normalize_qty(SplitQty(l))

\* a request with the single line of the end-to-end scenario
InitE2E ==
    /\ QtyIdle
    /\ ConcIdle
    /\ produtos = <<E2ELine>>
    /\ RequestStart

(***************************************************************************)
(* Control-flow helpers.                                                   *)
(***************************************************************************)
Bump(name) == [calls EXCEPT ![name] = @ + 1]

\* an exception leaves the try block of lines 70-173: the handler of line
\* 175 re-raises it and the finally block of line 179 is entered; c is the
\* exception that was being handled when e was raised (its __context__),
\* NoExc when e was raised outside every handler or re-raised by `raise`
RaiseInTry(e, c, h) ==
    /\ exc' = e
    /\ excContext' = c
    /\ hist' = [h EXCEPT !.excAtFinally = e]
    /\ pc' = "settle"

\* `continue` or the end of the loop body: the next linha, or line 105
NextLine(h, env) ==
    /\ i' = i + 1
    /\ hist' = [h EXCEPT !.lineEnv = Append(@, env), !.addFailure = NoExc]
    /\ pc' = "loop"

(***************************************************************************)
(* Session acquisition, lines 60-68 (outside the try block).               *)
(***************************************************************************)
\* line 60: async_playwright().__aenter__; when it raises the with block is
\* not entered and the exception leaves process_request
PlaywrightStart ==
    /\ pc = "playwright_start"
    /\ \E ok \in BOOLEAN :
         IF ok
         THEN /\ pc' = "launch"
              /\ exc' = exc
         ELSE /\ pc' = "returned"
              /\ exc' = "playwright_start"
    /\ UNCHANGED <<qtyVars, concVars, produtos, session, i, url, qty, items, checkout,
                   redirect_url, fieldIdx, regionStep, excContext, response, calls, hist>>

\* line 63: p.chromium.launch; an exception of lines 63-65 leaves the with
\* block of line 60
Launch ==
    /\ pc = "launch"
    /\ \E ok \in BOOLEAN :
         IF ok
         THEN /\ session' = [session EXCEPT !.browser = "open"]
              /\ pc' = "new_context"
              /\ exc' = exc
         ELSE /\ session' = session
              /\ pc' = "playwright_stop"
              /\ exc' = "launch"
    /\ UNCHANGED <<qtyVars, concVars, produtos, i, url, qty, items, checkout, redirect_url, fieldIdx,
                   regionStep, excContext, response, calls, hist>>

NewContext ==
    /\ pc = "new_context"
    /\ \E ok \in BOOLEAN :
         IF ok
         THEN /\ session' = [session EXCEPT !.context = "open"]
              /\ pc' = "new_page"
              /\ exc' = exc
         ELSE /\ session' = session
              /\ pc' = "playwright_stop"
              /\ exc' = "new_context"
    /\ UNCHANGED <<qtyVars, concVars, produtos, i, url, qty, items, checkout, redirect_url, fieldIdx,
                   regionStep, excContext, response, calls, hist>>

\* new_page, set_default_timeout and the creation of result (lines 65-68)
NewPage ==
    /\ pc = "new_page"
    /\ \E ok \in BOOLEAN :
         IF ok
         THEN /\ session' = [session EXCEPT !.page = "open"]
              /\ checkout' = "pending"
              /\ pc' = "loop"
              /\ exc' = exc
         ELSE /\ session' = session
              /\ checkout' = checkout
              /\ pc' = "playwright_stop"
              /\ exc' = "new_page"
    /\ UNCHANGED <<qtyVars, concVars, produtos, i, url, qty, items, redirect_url, fieldIdx,
                   regionStep, excContext, response, calls, hist>>

(***************************************************************************)
(* Cart population, lines 71-103.                                          *)
(***************************************************************************)
\* slip: the handler of the unpacking error records an outcome for the line
InvalidLine_Recorded ==
    /\ items' = Append(items, [url |-> produtos[i], qty |-> <<>>, added |-> FALSE])
    /\ NextLine([hist EXCEPT !.itemLine = Append(@, i)], "none")
    /\ UNCHANGED <<url, qty, exc, excContext>>

\* lines 74-76: the ValueError of the unpacking is caught, the line is
\* logged and left with `continue`
InvalidLine ==
    /\ items' = items
    /\ NextLine(hist, "none")
    /\ UNCHANGED <<url, qty, exc, excContext>>

\* lines 71-79: take the next linha, split it, normalise the quantity
LoopHead ==
    /\ pc = "loop"
    /\ IF i > Len(produtos)
       THEN \* the loop is over: line 105
            /\ pc' = "goto_checkout"
            /\ hist' = [hist EXCEPT !.reachedCheckout = TRUE]
            /\ UNCHANGED <<i, url, qty, items, exc, excContext>>
       ELSE IF ~HasSeparator(produtos[i])
       THEN InvalidLine
       ELSE IF QtyOfLine(produtos[i]) = ValueError
       THEN \* float() raises at line 78, which no inner handler encloses
            /\ url' = SplitUrl(produtos[i])
            /\ RaiseInTry("qty_value_error", NoExc, hist)
            /\ UNCHANGED <<i, qty, items>>
       ELSE /\ url' = SplitUrl(produtos[i])
            /\ qty' = QtyOfLine(produtos[i])
            /\ pc' = "goto_product"
            /\ UNCHANGED <<i, items, exc, excContext, hist>>
    /\ UNCHANGED <<qtyVars, concVars, produtos, session, checkout, redirect_url, fieldIdx,
                   regionStep, response, calls>>

\* slip: the outcome is put in front of the earlier ones
Record_Front(added) == <<[url |-> url, qty |-> qty, added |-> added]>> \o items

\* lines 94 and 100: result["items"].append({"url", "qty", "added"})
Record(added) == Append(items, [url |-> url, qty |-> qty, added |-> added])

\* lines 81-86: page.goto(url); a failure is logged and the line is left
GotoProduct ==
    /\ pc = "goto_product"
    /\ calls' = Bump("goto_product")
    /\ \E ok \in BOOLEAN :
         LET h == [hist EXCEPT !.acted = @ \cup {i}]
         IN  IF ok
             THEN /\ pc' = "fill_qty"
                  /\ hist' = h
                  /\ i' = i
             ELSE NextLine(h, "nav_fail")
    /\ UNCHANGED <<qtyVars, concVars, produtos, session, url, qty, items, checkout, redirect_url,
                   fieldIdx, regionStep, exc, excContext, response>>

\* line 89: page.fill("input.qty", qty)
FillQty ==
    /\ pc = "fill_qty"
    /\ calls' = Bump("fill_qty")
    /\ \E ok \in BOOLEAN :
         IF ok
         THEN /\ pc' = "delay_qty"
              /\ hist' = hist
         ELSE /\ pc' = "stock_check"
              /\ hist' = [hist EXCEPT !.addFailure = "fill_qty"]
    /\ UNCHANGED <<qtyVars, concVars, produtos, session, i, url, qty, items, checkout, redirect_url,
                   fieldIdx, regionStep, exc, excContext, response>>

\* line 90: the pause after the fill
DelayQty ==
    /\ pc = "delay_qty"
    /\ pc' = "click_add"
    /\ UNCHANGED <<qtyVars, concVars, produtos, session, i, url, qty, items, checkout, redirect_url,
                   fieldIdx, regionStep, exc, excContext, response, calls, hist>>

\* lines 91-92: page.click inside the with block of expect_response
ClickAdd ==
    /\ pc = "click_add"
    /\ calls' = Bump("click_add")
    /\ \E ok \in BOOLEAN :
         IF ok
         THEN /\ pc' = "await_response"
              /\ hist' = hist
         ELSE /\ pc' = "stock_check"
              /\ hist' = [hist EXCEPT !.addFailure = "click_add"]
    /\ UNCHANGED <<qtyVars, concVars, produtos, session, i, url, qty, items, checkout, redirect_url,
                   fieldIdx, regionStep, exc, excContext, response>>

\* lines 91-94: the with block ends by awaiting the wc-ajax response; when it
\* arrives the outcome is appended, when it does not the wait raises
AwaitResponse ==
    /\ pc = "await_response"
    /\ \E ok \in BOOLEAN :
         IF ok
         THEN /\ items' = Record(TRUE)
              /\ hist' = [hist EXCEPT !.itemLine = Append(@, i),
                                      !.lineEnv = Append(@, "add_ok")]
              /\ pc' = "delay_line"
         ELSE /\ items' = items
              /\ hist' = [hist EXCEPT !.addFailure = "click_add_timeout"]
              /\ pc' = "stock_check"
    /\ UNCHANGED <<qtyVars, concVars, produtos, session, i, url, qty, checkout, redirect_url,
                   fieldIdx, regionStep, exc, excContext, response, calls>>

\* line 103: the pause after an added product, then the next linha
DelayLine ==
    /\ pc = "delay_line"
    /\ i' = i + 1
    /\ pc' = "loop"
    /\ UNCHANGED <<qtyVars, concVars, produtos, session, url, qty, items, checkout, redirect_url,
                   fieldIdx, regionStep, exc, excContext, response, calls, hist>>

\* lines 95-101: the handler of a failed fill or click reads the page; the
\* stock message only selects a log line; a failing read is not caught here
\* and leaves the handler with the handled exception as its context
StockCheck ==
    /\ pc = "stock_check"
    /\ calls' = Bump("content")
    /\ \E ok \in BOOLEAN :
         IF ok
         THEN /\ items' = Record(FALSE)
              /\ NextLine([hist EXCEPT !.itemLine = Append(@, i)], "add_fail")
              /\ UNCHANGED <<exc, excContext>>
         ELSE /\ items' = items
              /\ RaiseInTry("stock_content", hist.addFailure, hist)
              /\ i' = i
    /\ UNCHANGED <<qtyVars, concVars, produtos, session, url, qty, checkout, redirect_url,
                   fieldIdx, regionStep, response>>

(***************************************************************************)
(* Checkout form, lines 105-151.                                           *)
(***************************************************************************)
\* lines 105-110: page.goto(CHECKOUT_URL); a failure is logged and re-raised
GotoCheckout ==
    /\ pc = "goto_checkout"
    /\ calls' = Bump("goto_checkout")
    /\ \E ok \in BOOLEAN :
         IF ok
         THEN /\ pc' = "fill_field"
              /\ UNCHANGED <<exc, excContext, hist>>
         ELSE RaiseInTry("goto_checkout", NoExc, hist)
    /\ UNCHANGED <<qtyVars, concVars, produtos, session, i, url, qty, items, checkout, redirect_url,
                   fieldIdx, regionStep, response>>

\* slip: the fills share one try block, a failing fill skips the later fields
FillField_StopOnFailure ==
    /\ pc = "fill_field"
    /\ fieldIdx <= Len(BillingFields)
    /\ \E ok \in BOOLEAN :
         /\ hist' = [hist EXCEPT
                       !.filled = Append(@, BillingFields[fieldIdx]),
                       !.fillFailed = @ \/ ~ok]
         /\ pc' = IF ~ok THEN "region" ELSE "delay_field"
    /\ fieldIdx' = fieldIdx + 1
    /\ UNCHANGED <<qtyVars, concVars, produtos, session, i, url, qty, items, checkout,
                   redirect_url, regionStep, exc, excContext, response, calls>>

\* lines 127-132: the fill of one iteration of the loop over mapping.items();
\* a failing fill is logged and the loop goes on
FillField ==
    /\ pc = "fill_field"
    /\ fieldIdx <= Len(BillingFields)
    /\ \E ok \in BOOLEAN :
         hist' = [hist EXCEPT
                    !.filled = Append(@, BillingFields[fieldIdx]),
                    !.fillFailed = @ \/ ~ok]
    /\ fieldIdx' = fieldIdx + 1
    /\ pc' = "delay_field"
    /\ UNCHANGED <<qtyVars, concVars, produtos, session, i, url, qty, items, checkout, redirect_url,
                   regionStep, exc, excContext, response, calls>>

\* line 133: the pause after each fill, then the next field or line 135
DelayField ==
    /\ pc = "delay_field"
    /\ pc' = IF fieldIdx > Len(BillingFields) THEN "region" ELSE "fill_field"
    /\ UNCHANGED <<qtyVars, concVars, produtos, session, i, url, qty, items, checkout, redirect_url,
                   fieldIdx, regionStep, exc, excContext, response, calls, hist>>

\* a region call that raised: the handler of line 145 logs it and the
\* remaining calls of the try block of lines 135-144 are not made
RegionAfterFailure == "content"

\* lines 135-146: the next of the eight awaits, all inside one try block; a
\* pause does not raise; when a call raises none of the later ones is made
RegionSelect ==
    /\ pc = "region"
    /\ calls' = IF RegionAwaits[regionStep] = "press" THEN Bump("region_cycles") ELSE calls
    /\ \E ok \in BOOLEAN :
         /\ RegionAwaits[regionStep] = "delay" => ok
         /\ IF ok
            THEN /\ regionStep' = regionStep + 1
                 /\ pc' = IF regionStep = Len(RegionAwaits) THEN "content" ELSE "region"
                 /\ hist' = hist
            ELSE /\ regionStep' = Len(RegionAwaits) + 1
                 /\ pc' = RegionAfterFailure
                 /\ hist' = [hist EXCEPT !.regionFailed = TRUE]
    /\ UNCHANGED <<qtyVars, concVars, produtos, session, i, url, qty, items, checkout, redirect_url,
                   fieldIdx, exc, excContext, response>>

\* slip: the banner is looked for but the run is not aborted
BannerAborts_Ignored(banner) == FALSE

\* line 149: the banner text is in the page that was read
BannerAborts(banner) == banner

\* lines 148-151: read the page, abort on the error banner
ContentCheck ==
    /\ pc = "content"
    /\ calls' = Bump("content")
    /\ \E ok \in BOOLEAN, banner \in BOOLEAN :
         IF ~ok
         THEN /\ ~banner
              /\ RaiseInTry("content", NoExc, hist)
         ELSE IF BannerAborts(banner)
         THEN RaiseInTry("banner", NoExc, [hist EXCEPT !.banner = banner])
         ELSE /\ pc' = "is_checked"
              /\ hist' = [hist EXCEPT !.banner = banner]
              /\ UNCHANGED <<exc, excContext>>
    /\ UNCHANGED <<qtyVars, concVars, produtos, session, i, url, qty, items, checkout, redirect_url,
                   fieldIdx, regionStep, response>>

(***************************************************************************)
(* Payment and submission, lines 153-173.                                  *)
(***************************************************************************)
\* slip: the option is selected whatever the query answered
NeedsCheck_Always(radio_checked) == TRUE

\* line 155: the option is selected only if the query answered false
NeedsCheck(radio_checked) == ~radio_checked

\* lines 153-155 and 160-161: page.is_checked on the PIX option
IsChecked ==
    /\ pc = "is_checked"
    /\ calls' = Bump("is_checked")
    /\ \E ok \in BOOLEAN, radio_checked \in BOOLEAN :
         IF ~ok
         THEN /\ ~radio_checked
              /\ hist' = [hist EXCEPT !.isChecked = "raised"]
              /\ pc' = "place_order"
         ELSE /\ hist' = [hist EXCEPT !.isChecked = IF radio_checked THEN "true" ELSE "false"]
              /\ pc' = IF NeedsCheck(radio_checked) THEN "check_pix" ELSE "place_order"
    /\ UNCHANGED <<qtyVars, concVars, produtos, session, i, url, qty, items, checkout, redirect_url,
                   fieldIdx, regionStep, exc, excContext, response>>

\* lines 156-157 and 160-161: page.check on the PIX option, failure logged
CheckPix ==
    /\ pc = "check_pix"
    /\ calls' = Bump("check")
    /\ \E ok \in BOOLEAN :
         hist' = [hist EXCEPT !.checkPix = IF ok THEN "ok" ELSE "raised"]
    /\ pc' = "place_order"
    /\ UNCHANGED <<qtyVars, concVars, produtos, session, i, url, qty, items, checkout, redirect_url,
                   fieldIdx, regionStep, exc, excContext, response>>

\* slip: the value an earlier version of the bot assigned after the form
SubmittedValue_Filled == "filled"

\* line 168: the value of result["checkout"] after the click
SubmittedValue == "pedido_enviado"

\* slip: the submission is treated as failed whatever the click did
SubmitSucceeds_Never(clickOk, final_url) == FALSE

\* lines 167-169 decide nothing on page.url: whatever URL the page has
\* after the delay is recorded and the order counts as sent
SubmitSucceeds(clickOk, final_url) == clickOk

\* lines 163-165 and 171-173: click #place_order; the handler of a failing
\* click raises HTTPException, whose context is the click's error
PlaceOrder ==
    /\ pc = "place_order"
    /\ calls' = Bump("place_order")
    /\ \E ok \in BOOLEAN :
         IF ok
         THEN /\ hist' = [hist EXCEPT !.clickOk = TRUE]
              /\ pc' = "delay_submit"
              /\ UNCHANGED <<exc, excContext>>
         ELSE RaiseInTry("place_order", "place_order_click", hist)
    /\ UNCHANGED <<qtyVars, concVars, produtos, session, i, url, qty, items, checkout,
                   redirect_url, fieldIdx, regionStep, response>>

\* lines 166-169: the pause after the click, then page.url is recorded and
\* the order counts as sent
DelaySubmit ==
    /\ pc = "delay_submit"
    /\ \E final_url \in {CHECKOUT_URL, ORDER_RECEIVED_URL} :
         LET h == [hist EXCEPT !.redirected = final_url # CHECKOUT_URL]
         IN  IF SubmitSucceeds(hist.clickOk, final_url)
             THEN /\ checkout' = SubmittedValue
                  /\ redirect_url' = final_url
                  /\ hist' = h
                  /\ pc' = "settle"
                  /\ UNCHANGED <<exc, excContext>>
             ELSE /\ RaiseInTry("place_order", NoExc, h)
                  /\ UNCHANGED <<checkout, redirect_url>>
    /\ UNCHANGED <<qtyVars, concVars, produtos, session, i, url, qty, items, fieldIdx,
                   regionStep, response, calls>>

(***************************************************************************)
(* Release, lines 179-185, and the endpoint, lines 187-197.                *)
(***************************************************************************)
\* an exception raised inside the finally block replaces the one that was
\* propagating and leaves the with block of line 60 at once
RaiseInFinally(e) ==
    /\ excContext' = exc
    /\ exc' = e
    /\ hist' = [hist EXCEPT !.closeFailed = TRUE]
    /\ pc' = "playwright_stop"

\* line 180: the settle delay that opens the finally block
Settle ==
    /\ pc = "settle"
    /\ pc' = "context_close"
    /\ UNCHANGED <<qtyVars, concVars, produtos, session, i, url, qty, items, checkout, redirect_url,
                   fieldIdx, regionStep, exc, excContext, response, calls, hist>>

\* line 181: context.close()
ContextClose ==
    /\ pc = "context_close"
    /\ calls' = Bump("context_close")
    /\ \E ok \in BOOLEAN :
         IF ok
         THEN /\ session' = [session EXCEPT !.context = "closed", !.page = "closed"]
              /\ pc' = "browser_close"
              /\ UNCHANGED <<exc, excContext, hist>>
         ELSE /\ session' = session
              /\ RaiseInFinally("context_close")
    /\ UNCHANGED <<qtyVars, concVars, produtos, i, url, qty, items, checkout, redirect_url, fieldIdx,
                   regionStep, response>>

\* lines 182-185: browser.close(), then the pending exception or the
\* return leaves the with block of line 60
BrowserClose ==
    /\ pc = "browser_close"
    /\ calls' = Bump("browser_close")
    /\ \E ok \in BOOLEAN :
         IF ok
         THEN /\ session' = [session EXCEPT !.browser = "closed"]
              /\ pc' = "playwright_stop"
              /\ UNCHANGED <<exc, excContext, hist>>
         ELSE /\ session' = session
              /\ RaiseInFinally("browser_close")
    /\ UNCHANGED <<qtyVars, concVars, produtos, i, url, qty, items, checkout, redirect_url, fieldIdx,
                   regionStep, response>>

\* the end of the with block of line 60: async_playwright().__aexit__; when
\* it raises, its exception replaces the pending one or the returned result
PlaywrightStop ==
    /\ pc = "playwright_stop"
    /\ \E ok \in BOOLEAN :
         IF ok
         THEN UNCHANGED <<exc, excContext, hist>>
         ELSE /\ excContext' = exc
              /\ exc' = "playwright_stop"
              /\ hist' = [hist EXCEPT !.stopFailed = TRUE]
    /\ pc' = "returned"
    /\ UNCHANGED <<qtyVars, concVars, produtos, session, i, url, qty, items, checkout,
                   redirect_url, fieldIdx, regionStep, response, calls>>

\* lines 190-197: the result with status "success", or HTTPException(500)
\* whose detail is str(e) of the exception that left process_request
checkout_endpoint ==
    /\ pc = "returned"
    /\ response' = IF exc = NoExc
                   THEN [kind |-> "result", status |-> "success", status_code |-> 200,
                         detail |-> NoExc, items |-> items, checkout |-> checkout,
                         redirect_url |-> redirect_url]
                   ELSE [kind |-> "http_exception", status |-> "failure",
                         status_code |-> 500, detail |-> exc, items |-> <<>>,
                         checkout |-> Absent, redirect_url |-> Absent]
    /\ pc' = "responded"
    /\ UNCHANGED <<qtyVars, concVars, produtos, session, i, url, qty, items, checkout, redirect_url,
                   fieldIdx, regionStep, exc, excContext, calls, hist>>

Next ==
    \/ PlaywrightStart \/ Launch \/ NewContext \/ NewPage
    \/ LoopHead \/ GotoProduct \/ FillQty \/ DelayQty \/ ClickAdd \/ AwaitResponse
    \/ DelayLine \/ StockCheck
    \/ GotoCheckout \/ FillField \/ DelayField \/ RegionSelect \/ ContentCheck
    \/ IsChecked \/ CheckPix \/ PlaceOrder \/ DelaySubmit
    \/ Settle \/ ContextClose \/ BrowserClose \/ PlaywrightStop \/ checkout_endpoint

Spec == Init /\ [][Next]_vars

\* the same request handling, started on the end-to-end scenario
SpecE2E == InitE2E /\ [][Next]_vars

Inv_Type == pc \in {"playwright_start", "launch", "new_context", "new_page", "loop",
                    "goto_product", "fill_qty", "delay_qty", "click_add",
                    "await_response", "delay_line", "stock_check", "goto_checkout",
                    "fill_field", "delay_field", "region", "content", "is_checked",
                    "check_pix", "place_order", "delay_submit", "settle",
                    "context_close", "browser_close", "playwright_stop", "returned",
                    "responded"}

(***************************************************************************)
(* normalize_qty on its own: one call on a bounded quantity string.        *)
(***************************************************************************)
\* longest quantity string that is explored
MaxQtyLen == 3

\* the characters of the explored quantity strings
QtyAlphabet == {"0", "2", "5", ",", ".", "-", "n", "a", "i", "f", "e", "_", " ",
                VerticalTab, NoBreakSpace, UnicodeDigits[1][2]}

RECURSIVE StringsUpTo(_)
StringsUpTo(n) == IF n = 0 THEN {<<>>}
                  ELSE LET S == StringsUpTo(n - 1)
                       IN  S \cup {Append(t, c) : t \in {x \in S : Len(x) = n - 1},
                                                  c \in QtyAlphabet}

\* q_out before the call
NotCalled == <<>>

InitQty ==
    /\ q_raw \in StringsUpTo(MaxQtyLen)
    /\ q_out = NotCalled
    /\ ConcIdle
    /\ produtos = <<>>
    /\ RequestStart

\* line 78: qty = normalize_qty(qty_raw)
NormalizeCall ==
    /\ q_out = NotCalled
    /\ q_out' = normalize_qty(q_raw)
    /\ UNCHANGED <<q_raw, concVars, reqVars>>

SpecQty == InitQty /\ [][NormalizeCall]_vars

(***************************************************************************)
(* Concurrent requests: every request is a call of process_request with    *)
(* its own locals (browser, context, page, result); the requests share the *)
(* event loop, which switches between them at each await and nowhere else. *)
(* A request is always suspended at an await; its pc names that await.  A  *)
(* step of a request is what the event loop runs without interruption: the *)
(* await returns or raises, the code after it runs up to the next await,   *)
(* and the call of that await is made.  Browser calls and pauses           *)
(* (human_delay, asyncio.sleep) are awaits alike.                          *)
(***************************************************************************)
\* the two requests that are in flight together
Runs == {1, 2}

\* data.produtos of the requests: one line each, different for each request
ConcLines == <<E2ELine, <<"p", "2", ":", "2">>>>

ProdutosOf(r) == <<ConcLines[r]>>

\* a browser object, named after the call that created it
Obj(kind, r) == [kind |-> kind, by |-> r]

NoObj == [kind |-> "none", by |-> 0]

\* the context switches that are counted; the count stays at this value
MaxSwitches == 2

\* the locals of a call of process_request that awaits
\* async_playwright().__aenter__ (line 60)
RunStart == [pc |-> "playwright_start", i |-> 1, items |-> <<>>, checkout |-> Absent,
             redirect_url |-> Absent, browser |-> NoObj, context |-> NoObj,
             page |-> NoObj, step |-> 1, exc |-> NoExc]

InitConc ==
    /\ runs = [r \in Runs |-> RunStart]
    /\ world = [open |-> {}, closed |-> {}, calls |-> {}, last |-> 0, switches |-> 0]
    /\ QtyIdle
    /\ produtos = <<>>
    /\ RequestStart

\* slip: the page is kept in a module-level name that all requests share
PageOf_Shared(me) ==
    IF \E x \in Runs : runs[x].page # NoObj
    THEN runs[CHOOSE x \in Runs : runs[x].page # NoObj].page
    ELSE me.page

\* the local names of lines 63-65, in the locals `me` of a request
PageOf(me) == me.page

ContextOf(me) == me.context

BrowserOf(me) == me.browser

\* request r makes a call on a browser object
Use(obj, r, w) == [w EXCEPT !.calls = @ \cup {[obj |-> obj, by |-> r, op |-> "call"]}]

\* request r calls close() on a browser object
CallClose(obj, r, w) == [w EXCEPT !.calls = @ \cup {[obj |-> obj, by |-> r, op |-> "close"]}]

Create(obj, w) == [w EXCEPT !.open = @ \cup {obj}]

\* a close() call returned
Close(obj, w) == [w EXCEPT !.open = @ \ {obj}, !.closed = @ \cup {obj}]

\* the event loop resumes request r
Resume(r, w) == [w EXCEPT !.last = r,
                          !.switches = IF w.last \in {0, r} \/ @ = MaxSwitches
                                       THEN @ ELSE @ + 1]

\* an exception leaves the with block of line 60: __aexit__ is awaited
CStop(me, e) == [me EXCEPT !.pc = "playwright_stop", !.exc = e]

\* an exception leaves the try block of lines 70-173, or the block ends:
\* the finally block awaits the settle delay of line 180
CSettle(me, e) == [me EXCEPT !.pc = "settle", !.exc = e, !.step = 1]

\* lines 71-82 and 105-107: from the head of the loop to the next await,
\* which is page.goto of a product, page.goto of the checkout, or, after the
\* ValueError of line 78, the settle delay
RECURSIVE CLoopHead(_, _)
CLoopHead(r, me) ==
    LET ps == ProdutosOf(r)
    IN  IF me.i > Len(ps) THEN [me EXCEPT !.pc = "goto_checkout"]
        ELSE IF ~HasSeparator(ps[me.i]) THEN CLoopHead(r, [me EXCEPT !.i = @ + 1])
        ELSE IF QtyOfLine(ps[me.i]) = ValueError THEN CSettle(me, "qty_value_error")
        ELSE [me EXCEPT !.pc = "goto_product"]

\* a step of request r ends suspended as `me`; the await it is suspended at
\* is a call on its page unless it is a pause
Suspend(r, me, w) ==
    /\ runs' = [runs EXCEPT ![r] = me]
    /\ world' = Resume(r, IF me.pc \in {"goto_product", "goto_checkout", "fill_qty",
                                        "click_add", "stock_check", "fill_field",
                                        "content", "is_checked", "check_pix",
                                        "place_order"}
                             \/ (me.pc = "region" /\ RegionAwaits[me.step] # "delay")
                          THEN Use(PageOf(me), r, w)
                          ELSE w)

\* lines 60-68: async_playwright().__aenter__, launch, new_context and
\* new_page with set_default_timeout on the new page, each outside the try
\* block; a failure after line 60 leaves the with block
CAcquire(r) ==
    LET me == runs[r]
    IN  /\ me.pc \in {"playwright_start", "launch", "new_context", "new_page"}
        /\ \E ok \in BOOLEAN :
             CASE me.pc = "playwright_start" ->
                    Suspend(r, IF ok THEN [me EXCEPT !.pc = "launch"]
                               ELSE [me EXCEPT !.pc = "responded", !.exc = "playwright_start"],
                            world)
               [] me.pc = "launch" ->
                    IF ok
                    THEN Suspend(r, [me EXCEPT !.pc = "new_context", !.browser = Obj("browser", r)],
                                 Use(Obj("browser", r), r, Create(Obj("browser", r), world)))
                    ELSE Suspend(r, CStop(me, "launch"), world)
               [] me.pc = "new_context" ->
                    IF ok
                    THEN Suspend(r, [me EXCEPT !.pc = "new_page", !.context = Obj("context", r)],
                                 Use(Obj("context", r), r, Create(Obj("context", r), world)))
                    ELSE Suspend(r, CStop(me, "new_context"), world)
               [] me.pc = "new_page" ->
                    IF ok
                    THEN Suspend(r, CLoopHead(r, [me EXCEPT !.page = Obj("page", r),
                                                           !.checkout = "pending"]),
                                 Use(Obj("page", r), r, Create(Obj("page", r), world)))
                    ELSE Suspend(r, CStop(me, "new_page"), world)
        /\ UNCHANGED <<qtyVars, reqVars>>

\* the outcome of the current line of request r (lines 94 and 100)
CItem(r, added) ==
    LET linha == ProdutosOf(r)[runs[r].i]
    IN  [url |-> SplitUrl(linha), qty |-> QtyOfLine(linha), added |-> added]

\* lines 81-103 of request r: goto, fill, the pause of line 90, the click
\* inside expect_response, the wait for the response when the with block of
\* line 91 ends, the pause of line 103, and the page read of the handler
CCart(r) ==
    LET me == runs[r]
        next == [me EXCEPT !.i = @ + 1]
    IN  /\ me.pc \in {"goto_product", "fill_qty", "delay_qty", "click_add",
                      "await_response", "delay_line", "stock_check"}
        /\ \E ok \in BOOLEAN :
             /\ me.pc \in {"delay_qty", "delay_line"} => ok
             /\ Suspend(r,
                  CASE me.pc = "goto_product" ->
                         IF ok THEN [me EXCEPT !.pc = "fill_qty"] ELSE CLoopHead(r, next)
                    [] me.pc = "fill_qty" ->
                         [me EXCEPT !.pc = IF ok THEN "delay_qty" ELSE "stock_check"]
                    [] me.pc = "delay_qty" -> [me EXCEPT !.pc = "click_add"]
                    [] me.pc = "click_add" ->
                         [me EXCEPT !.pc = IF ok THEN "await_response" ELSE "stock_check"]
                    [] me.pc = "await_response" ->
                         IF ok THEN [me EXCEPT !.pc = "delay_line",
                                               !.items = Append(@, CItem(r, TRUE))]
                         ELSE [me EXCEPT !.pc = "stock_check"]
                    [] me.pc = "delay_line" -> CLoopHead(r, next)
                    [] me.pc = "stock_check" ->
                         IF ok THEN CLoopHead(r, [next EXCEPT !.items = Append(@, CItem(r, FALSE))])
                         ELSE CSettle(me, "stock_content"),
                  world)
        /\ UNCHANGED <<qtyVars, reqVars>>

\* lines 105-146 of request r: the checkout navigation, the eleven fills,
\* each followed by the pause of line 133, and the awaits of the region
\* selection, which share one try block
CForm(r) ==
    LET me == runs[r]
        toContent == [me EXCEPT !.pc = "content", !.step = 1]
    IN  /\ me.pc \in {"goto_checkout", "fill_field", "delay_field", "region"}
        /\ \E ok \in BOOLEAN :
             /\ (me.pc = "delay_field" \/ (me.pc = "region" /\ RegionAwaits[me.step] = "delay"))
                    => ok
             /\ Suspend(r,
                  CASE me.pc = "goto_checkout" ->
                         IF ok THEN [me EXCEPT !.pc = "fill_field", !.step = 1]
                         ELSE CSettle(me, "goto_checkout")
                    [] me.pc = "fill_field" -> [me EXCEPT !.pc = "delay_field"]
                    [] me.pc = "delay_field" ->
                         IF me.step < Len(BillingFields)
                         THEN [me EXCEPT !.pc = "fill_field", !.step = @ + 1]
                         ELSE [me EXCEPT !.pc = "region", !.step = 1]
                    [] me.pc = "region" ->
                         IF ok /\ me.step < Len(RegionAwaits)
                         THEN [me EXCEPT !.step = @ + 1]
                         ELSE toContent,
                  world)
        /\ UNCHANGED <<qtyVars, reqVars>>

\* lines 148-173 of request r: banner check, payment, the place-order click,
\* the pause of line 166 and the writes of lines 167-169
CSubmit(r) ==
    LET me == runs[r]
    IN  /\ me.pc \in {"content", "is_checked", "check_pix", "place_order", "delay_submit"}
        /\ \E ok \in BOOLEAN, flag \in BOOLEAN :
             /\ me.pc \in {"check_pix", "place_order"} => ~flag
             /\ me.pc = "delay_submit" => ok
             /\ ~ok => ~flag
             /\ CASE me.pc = "content" ->
                       Suspend(r, IF ok /\ ~BannerAborts(flag) THEN [me EXCEPT !.pc = "is_checked"]
                                  ELSE CSettle(me, IF ok THEN "banner" ELSE "content"),
                               world)
                  [] me.pc = "is_checked" ->
                       Suspend(r, [me EXCEPT !.pc = IF ok /\ NeedsCheck(flag) THEN "check_pix"
                                                    ELSE "place_order"],
                               world)
                  [] me.pc = "check_pix" -> Suspend(r, [me EXCEPT !.pc = "place_order"], world)
                  [] me.pc = "place_order" ->
                       Suspend(r, IF ok THEN [me EXCEPT !.pc = "delay_submit"]
                                  ELSE CSettle(me, "place_order"),
                               world)
                  [] me.pc = "delay_submit" ->
                       Suspend(r, CSettle([me EXCEPT !.checkout = SubmittedValue,
                                                     !.redirect_url = IF flag THEN ORDER_RECEIVED_URL
                                                                      ELSE CHECKOUT_URL],
                                          NoExc),
                               Use(PageOf(me), r, world))
        /\ UNCHANGED <<qtyVars, reqVars>>

\* lines 179-197 of request r: the settle delay, context.close(),
\* browser.close(), async_playwright().__aexit__, and the answer of the
\* endpoint, which follows without an await
CRelease(r) ==
    LET me == runs[r]
    IN  /\ me.pc \in {"settle", "context_close", "browser_close", "playwright_stop"}
        /\ \E ok \in BOOLEAN :
             /\ me.pc = "settle" => ok
             /\ CASE me.pc = "settle" ->
                       Suspend(r, [me EXCEPT !.pc = "context_close"],
                               CallClose(ContextOf(me), r, world))
                  [] me.pc = "context_close" ->
                       IF ok
                       THEN Suspend(r, [me EXCEPT !.pc = "browser_close"],
                                    CallClose(BrowserOf(me), r,
                                              Close(Obj("page", ContextOf(me).by), Close(ContextOf(me), world))))
                       ELSE Suspend(r, CStop(me, "context_close"), world)
                  [] me.pc = "browser_close" ->
                       IF ok
                       THEN Suspend(r, CStop(me, me.exc), Close(BrowserOf(me), world))
                       ELSE Suspend(r, CStop(me, "browser_close"), world)
                  [] me.pc = "playwright_stop" ->
                       Suspend(r, [me EXCEPT !.pc = "responded",
                                             !.exc = IF ok THEN @ ELSE "playwright_stop"],
                               world)
        /\ UNCHANGED <<qtyVars, reqVars>>

NextConc ==
    \E r \in Runs :
        \/ CAcquire(r) \/ CCart(r) \/ CForm(r) \/ CSubmit(r) \/ CRelease(r)

SpecConc == InitConc /\ [][NextConc]_vars

(***************************************************************************)
(* Properties.                                                             *)
(***************************************************************************)
Range(f) == {f[k] : k \in DOMAIN f}

\* process_request has ended and the endpoint has answered
Finished == pc = "responded"

\* the session was acquired: the try block of line 70 was entered
Acquired == session.page # "none"

\* the lines that are split into url and quantity, in input order
RECURSIVE ValidIdx(_, _)
ValidIdx(lines, k) ==
    IF k > Len(lines) THEN <<>>
    ELSE (IF HasSeparator(lines[k]) THEN <<k>> ELSE <<>>) \o ValidIdx(lines, k + 1)

\* C1: every run releases the session exactly once: context.close and then
\* browser.close are each invoked once, on every exit path.
C1_ReleasedExactlyOnce ==
    (Finished /\ Acquired) => calls.context_close = 1 /\ calls.browser_close = 1

\* C2: no failure inside the per-line loop aborts the run: every run that
\* entered cart population goes on to the navigation to the checkout page.
C2_CartNeverAborts ==
    (Finished /\ Acquired) => calls.goto_checkout = 1

\* C3: once the loop is over, items holds one outcome per line that has a
\* ':' separator, in input order, added being true exactly for the lines
\* whose add-to-cart succeeded.
C3_OneOutcomePerParsedLine ==
    hist.reachedCheckout =>
        LET valid == ValidIdx(produtos, 1)
        IN  /\ Len(items) = Len(valid)
            /\ \A n \in 1..Len(valid) :
                 /\ n <= Len(items)
                 /\ items[n].url = SplitUrl(produtos[valid[n]])
                 /\ items[n].added = (hist.lineEnv[valid[n]] = "add_ok")

\* C4: when the page read after form filling holds the error banner, the
\* payment option is neither queried nor selected, the order button is not
\* clicked, and the endpoint answers 500 with a detail and no redirect_url.
C4_BannerAbortsBeforePayment ==
    hist.banner =>
        /\ calls.is_checked = 0 /\ calls.check = 0 /\ calls.place_order = 0
        /\ redirect_url = Absent
        /\ pc \in {"settle", "context_close", "browser_close", "playwright_stop",
                  "returned", "responded"}
        /\ Finished => /\ response.kind = "http_exception"
                       /\ response.status_code = 500
                       /\ response.detail # NoExc
                       /\ response.redirect_url = Absent

C4_Witness ==
    Finished /\ hist.banner /\ response.status_code = 500 /\ Len(items) > 0

\* C5: a line with a separator and a non-numeric quantity gets an outcome
\* with added=false, the lines after it are processed and the run goes on to
\* the checkout step.
C5_BadQuantityIsolated ==
    (Finished /\ Acquired) =>
        \A k \in 1..Len(produtos) :
            (HasSeparator(produtos[k]) /\ ~IsFloat(ReplaceComma(SplitQty(produtos[k])))) =>
                /\ \E n \in 1..Len(items) : hist.itemLine[n] = k /\ ~items[n].added
                /\ Len(hist.lineEnv) = Len(produtos)
                /\ calls.goto_checkout = 1

\* C6: a run that reached the region selection has performed exactly two
\* open/type/Enter cycles when it leaves it, whatever the first cycle did.
C6_TwoRegionCycles ==
    (fieldIdx > Len(BillingFields) /\ pc \notin {"delay_field", "region"})
        => calls.region_cycles = 2

\* C7: a failing place-order click and a missing redirect are both fatal;
\* checkout becomes "pedido_enviado" and redirect_url is recorded only when
\* the click succeeded and the page left the checkout URL.
C7_SubmitOrRedirectFailureFatal ==
    calls.place_order = 1 =>
        /\ (checkout = "pedido_enviado" \/ redirect_url # Absent)
               => (hist.clickOk /\ hist.redirected)
        /\ (Finished /\ ~(hist.clickOk /\ hist.redirected))
               => response.status_code = 500

\* C8: a failing context.close or browser.close does not change the outcome:
\* a run that had a result still answers success, a run that had failed
\* answers with the error it failed with.
C8_ReleaseFailureNotMasking ==
    (Finished /\ hist.closeFailed) =>
        IF hist.excAtFinally = NoExc
        THEN response.status = "success"
        ELSE response.detail = hist.excAtFinally

\* C9: page.check is invoked only after page.is_checked answered false, and
\* not when it answered true; whatever the query and the selection did
\* (including raising), the place-order click comes next.
C9_CheckBeforeSet ==
    /\ calls.check <= 1
    /\ calls.check = 1 => hist.isChecked = "false"
    /\ hist.isChecked \in {"true", "raised"} => calls.check = 0 /\ hist.checkPix = "none"
    /\ calls.is_checked = 1 =>
         \/ pc = "check_pix" /\ hist.isChecked = "false"
         \/ pc = "place_order"
         \/ calls.place_order = 1

C9_Witness ==
    /\ hist.isChecked = "true"
    /\ calls.check = 0
    /\ calls.place_order = 1

\* the outcomes of the loop of lines 71-103 for lines that all hold a
\* separator, given what the browser did for each of them
RECURSIVE ExpectedItems(_, _)
ExpectedItems(lines, env) ==
    IF lines = <<>> THEN <<>>
    ELSE (IF Head(env) \in {"add_ok", "add_fail"}
          THEN <<[url |-> SplitUrl(Head(lines)),
                  qty |-> QtyOfLine(Head(lines)),
                  added |-> Head(env) = "add_ok"]>>
          ELSE <<>>) \o ExpectedItems(Tail(lines), Tail(env))

\* C10: a line without ':' gets no outcome and no browser call, and the
\* outcomes of the other lines are those of the request without that line
\* under the same browser behaviour.
C10_InvalidLineInert ==
    LET done == Len(hist.lineEnv)
        prefix == SubSeq(produtos, 1, done)
        valid == ValidIdx(prefix, 1)
    IN  /\ \A k \in 1..done :
             ~HasSeparator(produtos[k]) =>
                 /\ k \notin hist.acted
                 /\ k \notin Range(hist.itemLine)
                 /\ hist.lineEnv[k] = "none"
        /\ items = ExpectedItems([n \in 1..Len(valid) |-> produtos[valid[n]]],
                                 [n \in 1..Len(valid) |-> hist.lineEnv[valid[n]]])

C10_Witness ==
    /\ Finished
    /\ Len(produtos) = 2
    /\ ~HasSeparator(produtos[1])
    /\ Len(items) = 1
    /\ hist.itemLine = <<2>>

IsPrefix(a, b) == Len(a) <= Len(b) /\ a = SubSeq(b, 1, Len(a))

\* the awaits of the cart-population loop
CartPcs == {"loop", "goto_product", "fill_qty", "delay_qty", "click_add",
            "await_response", "delay_line", "stock_check"}

\* the release and what follows it
EndPcs == {"settle", "context_close", "browser_close", "playwright_stop", "returned",
           "responded"}

\* C11: after a failed navigation to a product page every later line is
\* still taken by the loop and the run reaches the checkout step.
C11_NavFailureIsolated ==
    (Finished /\ \E k \in 1..Len(hist.lineEnv) : hist.lineEnv[k] = "nav_fail") =>
        /\ Len(hist.lineEnv) = Len(produtos)
        /\ calls.goto_checkout = 1

\* C12: the outcomes in items follow the order of their input lines, an
\* appended outcome is never removed, moved or changed, and no step after
\* cart population touches the sequence.
C12_ItemsAppendOnlyInOrder ==
    /\ [](/\ Len(hist.itemLine) = Len(items)
          /\ \A m, n \in 1..Len(items) : m < n => hist.itemLine[m] < hist.itemLine[n]
          /\ \A n \in 1..Len(items) :
               /\ hist.itemLine[n] \in 1..Len(produtos)
               /\ HasSeparator(produtos[hist.itemLine[n]])
               /\ items[n].url = SplitUrl(produtos[hist.itemLine[n]]))
    /\ [][/\ IsPrefix(items, items')
          /\ Len(items') <= Len(items) + 1
          /\ pc \notin {"await_response", "stock_check"} => items' = items]_vars

C12_Witness ==
    /\ Finished
    /\ Len(items) = 2
    /\ items[1].url # items[2].url
    /\ hist.itemLine = <<1, 2>>
    /\ calls.place_order = 1

\* C13: when the navigation to the checkout page fails, no billing field is
\* filled, no region, payment or place-order call is made, the caller gets a
\* failure and the session is released (context and browser closed).
C13_CheckoutNavFailureAborts ==
    hist.excAtFinally = "goto_checkout" =>
        /\ hist.filled = <<>> /\ regionStep = 1 /\ calls.region_cycles = 0
        /\ calls.is_checked = 0 /\ calls.check = 0
        /\ calls.place_order = 0
        /\ Finished => /\ response.status_code = 500
                       /\ calls.context_close = 1 /\ calls.browser_close = 1

\* the conditions the specification lists as fatal to the run
FatalCondition ==
    \/ ~Acquired
    \/ hist.excAtFinally \in {"goto_checkout", "banner", "place_order"}
    \/ calls.place_order = 1 /\ ~(hist.clickOk /\ hist.redirected)

\* C14: every request ends either with a result of status "success" that
\* carries the accumulated items, or with a failure of status code 500 and a
\* detail, and never with success when a fatal condition occurred.
C14_SuccessXorFailure ==
    Finished =>
        /\ \/ /\ response.kind = "result" /\ response.status = "success"
              /\ response.items = items /\ response.detail = NoExc
           \/ /\ response.kind = "http_exception" /\ response.status_code = 500
              /\ response.detail # NoExc /\ response.status # "success"
        /\ response.status = "success" => ~FatalCondition

\* C15: when the acquisition fails at one of its steps, the run fails
\* without any cart, checkout or submission call, and what had been created
\* (a launched browser, a context) is closed before the failure is reported.
C15_AcquisitionFailureReleases ==
    (Finished /\ ~Acquired) =>
        /\ response.status_code = 500
        /\ calls.goto_product = 0 /\ calls.goto_checkout = 0 /\ calls.place_order = 0
        /\ session.browser # "open"
        /\ session.context # "open"

\* the order of the billing fields that the claim C19 states
BillingOrder == <<"billing_email", "billing_first_name", "billing_last_name",
                  "billing_cpf", "billing_postcode", "billing_address_1",
                  "billing_number", "billing_address_2", "billing_neighborhood",
                  "billing_city", "billing_phone">>

\* the checkout page was reached: page.goto(CHECKOUT_URL) returned
AtCheckoutForm ==
    calls.goto_checkout = 1 /\ pc # "goto_checkout" /\ hist.excAtFinally # "goto_checkout"

\* C19: once the checkout page is reached a fill is attempted for each of
\* the eleven billing fields exactly once and in the mapping order, whatever
\* fills fail; a failing fill neither aborts the run nor skips a field.
C19_AllFieldsAttemptedInOrder ==
    AtCheckoutForm =>
        IF pc \in {"fill_field", "delay_field"}
        THEN /\ pc = "fill_field" => fieldIdx <= Len(BillingOrder)
             /\ hist.filled = SubSeq(BillingOrder, 1, fieldIdx - 1)
             /\ exc = NoExc
        ELSE hist.filled = BillingOrder

C19_Witness ==
    /\ hist.fillFailed
    /\ hist.filled = BillingOrder
    /\ calls.place_order = 1

\* C20: redirect_url is present exactly when checkout is "pedido_enviado",
\* both only after the place-order click returned; checkout is never
\* anything but "pending" or "pedido_enviado"; a response with status
\* "success" carries "pedido_enviado" and a redirect_url.
C20_RedirectIffSubmitted ==
    /\ (redirect_url # Absent) <=> (checkout = "pedido_enviado")
    /\ checkout \in (IF Acquired THEN {"pending", "pedido_enviado"} ELSE {Absent})
    /\ checkout = "pedido_enviado" => (hist.clickOk /\ calls.place_order = 1)
    /\ response.status = "success" =>
         /\ response.checkout = "pedido_enviado"
         /\ response.redirect_url \notin {Absent, ""}

C20_Witness ==
    /\ Finished
    /\ response.status = "success"
    /\ response.checkout = "pedido_enviado"
    /\ response.redirect_url = ORDER_RECEIVED_URL

\* no browser call of the run raised, the page showed no banner and the
\* shop redirected after the click
NoBrowserFailure ==
    /\ hist.lineEnv = <<"add_ok">>
    /\ ~hist.fillFailed /\ ~hist.regionFailed /\ ~hist.banner
    /\ hist.isChecked \in {"true", "false"} /\ hist.checkPix # "raised"
    /\ hist.clickOk /\ hist.redirected /\ ~hist.closeFailed /\ ~hist.stopFailed
    /\ hist.excAtFinally \notin {"stock_content", "goto_checkout", "content"}

\* C16: for the single line "https://shop/p1:0,05" and a browser that does
\* not fail, the run passes cart, form and submission, and the response has
\* one outcome with added=true, checkout "pedido_enviado", a non-empty
\* redirect_url and status "success".
C16_EndToEndSuccess ==
    (Finished /\ NoBrowserFailure) =>
        /\ calls.goto_product = 1 /\ calls.goto_checkout = 1
        /\ hist.filled = BillingFields /\ calls.region_cycles = 2
        /\ calls.place_order = 1
        /\ calls.context_close = 1 /\ calls.browser_close = 1
        /\ response.status = "success"
        /\ response.items =
             <<[url |-> <<"h", "t", "t", "p", "s", ":", "/", "/", "s", "h", "o", "p", "/", "p", "1">>,
                qty |-> <<"0", ".", "0", "5">>,
                added |-> TRUE]>>
        /\ response.checkout = "pedido_enviado"
        /\ response.redirect_url \notin {Absent, ""}

C16_Witness ==
    /\ Finished
    /\ NoBrowserFailure
    /\ response.status = "success"
    /\ Len(response.items) = 1

\* normalize_qty returned a string of digits, '.', and two digits
IsTwoDecimals(t) ==
    /\ Len(t) >= 4
    /\ t[Len(t) - 2] = "."
    /\ \A k \in (1..Len(t)) \ {Len(t) - 2} : IsDigit(t[k])

\* C18: what normalize_qty returns is a non-negative finite number with
\* exactly two fractional digits, comma and dot both being accepted
\* ("0,5" gives "0.50", "2" gives "2.00"); every other string is an error.
C18_QtyNonNegativeTwoDecimals ==
    q_out # NotCalled =>
        /\ q_out # ValueError => IsTwoDecimals(q_out)
        /\ q_raw = <<"0", ",", "5">> => q_out = <<"0", ".", "5", "0">>
        /\ q_raw = <<"2">> => q_out = <<"2", ".", "0", "0">>

\* C17: under every interleaving a request calls and closes only the
\* browser, context and page it created, and its items are outcomes of its
\* own product lines only.
C17_RunsIsolated ==
    /\ \A c \in world.calls : c.obj.by = c.by
    /\ \A r \in Runs :
         /\ runs[r].browser \in {NoObj, Obj("browser", r)}
         /\ runs[r].context \in {NoObj, Obj("context", r)}
         /\ runs[r].page \in {NoObj, Obj("page", r)}
         /\ \A n \in 1..Len(runs[r].items) :
              \E k \in 1..Len(ProdutosOf(r)) :
                  runs[r].items[n].url = SplitUrl(ProdutosOf(r)[k])

\* both requests are in flight after the event loop has switched between
\* them more than once: request 1 awaits the pause after its place-order
\* click, request 2 the response to its add-to-cart click
C17_Witness ==
    /\ runs[1].pc = "delay_submit" /\ runs[1].checkout = "pending"
    /\ Len(runs[1].items) = 1 /\ runs[1].items[1].added
    /\ runs[2].pc = "await_response"
    /\ {Obj("page", 1), Obj("page", 2)} \subseteq world.open
    /\ [obj |-> Obj("page", 1), by |-> 1, op |-> "call"] \in world.calls
    /\ [obj |-> Obj("page", 2), by |-> 2, op |-> "call"] \in world.calls
    /\ world.switches = MaxSwitches

====
